---- MODULE Spec2Model ----
(***************************************************************************)
(* Model of contracts/scripts/python/build_selector_library.py: the        *)
(* script that runs `forge inspect <contract> methodIdentifiers` for a     *)
(* list of Solidity files, ABI-encodes the reported selectors and writes   *)
(* test/helpers/SelectorLibrary.sol.                                       *)
(*                                                                         *)
(* Text (paths, contract names, hex strings, generated source) is a        *)
(* sequence of one-character strings, except that the fixed template       *)
(* lines of the generated source are kept as whole strings.  Bytes are     *)
(* sequences of integers 0..255.                                           *)
(***************************************************************************)
EXTENDS Integers, Sequences, FiniteSets, TLC

----------------------------------------------------------------------------
(* Bounds of the model.                                                    *)

\* longest target list main() is run with
MaxTargets == 2
\* most entries in one mapping reported by the tool
MaxSelectors == 2

----------------------------------------------------------------------------
(* Generic sequence helpers.                                               *)

Range(s) == { s[k] : k \in 1..Len(s) }

RECURSIVE Flatten(_)
Flatten(ss) == IF ss = <<>> THEN <<>> ELSE Head(ss) \o Flatten(Tail(ss))

\* position of the last occurrence of c in s, 0 when there is none
LastIndexOf(s, c) ==
    LET hits == { k \in 1..Len(s) : s[k] = c }
    IN  IF hits = {} THEN 0 ELSE CHOOSE k \in hits : \A j \in hits : j <= k

\* str.startswith
startswith(s, prefix) ==
    /\ Len(prefix) <= Len(s)
    /\ SubSeq(s, 1, Len(prefix)) = prefix

\* str.endswith
endswith(s, suffix) ==
    /\ Len(suffix) <= Len(s)
    /\ SubSeq(s, Len(s) - Len(suffix) + 1, Len(s)) = suffix

----------------------------------------------------------------------------
(* os.path.basename and os.path.splitext (posixpath).                      *)

basename(p) == SubSeq(p, LastIndexOf(p, "/") + 1, Len(p))

\* splitext(p)[0]: the extension starts at the last dot of the last path
\* segment, unless that dot is preceded only by dots in the segment.
splitext_root(p) ==
    LET sep == LastIndexOf(p, "/")
        dot == LastIndexOf(p, ".")
    IN  IF dot > sep /\ \E k \in (sep + 1)..(dot - 1) : p[k] # "."
        THEN SubSeq(p, 1, dot - 1)
        ELSE p

\* line 100
ContractName(filepath) == splitext_root(basename(filepath))

\* line 103, broken: the interface prefix is not tested
IsFilteredNoInterface(contract_name) ==
    \/ startswith(contract_name, <<"L", "i", "b">>)
    \/ endswith(contract_name, <<"H", "e", "l", "p", "e", "r">>)

\* line 103
IsFiltered(contract_name) ==
    \/ startswith(contract_name, <<"L", "i", "b">>)
    \/ startswith(contract_name, <<"I">>)
    \/ endswith(contract_name, <<"H", "e", "l", "p", "e", "r">>)

\* line 109: filepath + ':' + contract_name
ContractId(filepath) == filepath \o <<":">> \o ContractName(filepath)

----------------------------------------------------------------------------
(* Hexadecimal: bytes.fromhex and bytes.hex.                               *)

HexDigits == <<"0", "1", "2", "3", "4", "5", "6", "7",
               "8", "9", "a", "b", "c", "d", "e", "f">>
UpperHexDigits == <<"0", "1", "2", "3", "4", "5", "6", "7",
                    "8", "9", "A", "B", "C", "D", "E", "F">>

IsHexChar(c) == c \in Range(HexDigits) \cup Range(UpperHexDigits)

HexVal(c) ==
    IF c \in Range(HexDigits)
    THEN (CHOOSE k \in 1..16 : HexDigits[k] = c) - 1
    ELSE (CHOOSE k \in 1..16 : UpperHexDigits[k] = c) - 1

\* bytes.fromhex raises ValueError on an odd number of digits or a
\* character that is no hex digit
fromhex_ok(s) == Len(s) % 2 = 0 /\ \A k \in 1..Len(s) : IsHexChar(s[k])

fromhex(s) == [k \in 1..(Len(s) \div 2) |->
                  16 * HexVal(s[2 * k - 1]) + HexVal(s[2 * k])]

\* bytes.hex: two lowercase digits per byte
hex(bs) == [k \in 1..(2 * Len(bs)) |->
               LET b == bs[(k + 1) \div 2]
               IN  IF k % 2 = 1 THEN HexDigits[(b \div 16) + 1]
                                ELSE HexDigits[(b % 16) + 1]]

----------------------------------------------------------------------------
(* eth_abi.encode(["bytes4[]"], [selectors]).                              *)

\* n as `width` big-endian bytes
RECURSIVE BigEndian(_, _)
BigEndian(n, width) ==
    IF width = 0 THEN <<>>
    ELSE Append(BigEndian(n \div 256, width - 1), n % 256)

Zeros(n) == [k \in 1..n |-> 0]

\* a bytes4 element may be at most 4 bytes long (ValueOutOfBounds otherwise)
encode_ok(selectors) == \A k \in 1..Len(selectors) : Len(selectors[k]) <= 4

\* broken: the element is padded on the left of its four bytes
EncodeElementLeftPad(value) ==
    Zeros(4 - Len(value)) \o value \o Zeros(28)

\* a fixed-size bytes value is padded with zero bytes on the right
\* to one 32-byte word
EncodeElement(value) == value \o Zeros(32 - Len(value))

\* broken: the elements are written last to first
EncodeArrayReversed(selectors) ==
    BigEndian(Len(selectors), 32)
      \o Flatten([k \in 1..Len(selectors) |->
                     EncodeElement(selectors[Len(selectors) + 1 - k])])

\* the array itself: its length, then its elements
EncodeArray(selectors) ==
    BigEndian(Len(selectors), 32)
      \o Flatten([k \in 1..Len(selectors) |-> EncodeElement(selectors[k])])

\* broken: the tuple head (the offset of the array) is left out
encodeNoOffset(selectors) == EncodeArray(selectors)

\* the one-element tuple (bytes4[]): a head holding the offset of the
\* dynamic array, then the array
encode(selectors) == BigEndian(32, 32) \o EncodeArray(selectors)

----------------------------------------------------------------------------
(* Solidity's abi.decode(data, (bytes4[])), as the generated code calls it *)
(* on each blob.  The result is [ok |-> FALSE] when the call reverts.      *)

\* a 32-byte word read as an unsigned integer.  A word with a non-zero
\* byte among its first 29 is larger than any blob is long; it is read as
\* 2^24, which every bounds test below treats the same way.
FromBigEndian(word) ==
    IF SubSeq(word, 1, 29) # Zeros(29) THEN 16777216
    ELSE 65536 * word[30] + 256 * word[31] + word[32]

WordAt(data, pos) == SubSeq(data, pos + 1, pos + 32)

abi_decode(data) ==
    IF Len(data) < 32 THEN [ok |-> FALSE]
    ELSE
      LET offset == FromBigEndian(WordAt(data, 0))
      IN  IF offset + 32 > Len(data) THEN [ok |-> FALSE]
          ELSE
            LET n     == FromBigEndian(WordAt(data, offset))
                first == offset + 32
            IN  IF first + 32 * n > Len(data) THEN [ok |-> FALSE]
                ELSE
                  LET word(k) == WordAt(data, first + 32 * (k - 1))
                  IN  IF \E k \in 1..n : SubSeq(word(k), 5, 32) # Zeros(28)
                      THEN [ok |-> FALSE]
                      ELSE [ok |-> TRUE,
                            value |-> [k \in 1..n |-> SubSeq(word(k), 1, 4)]]

----------------------------------------------------------------------------
(* What one run of `forge inspect <contract> methodIdentifiers` leaves on  *)
(* its standard output, and json.loads of it.                              *)
(*                                                                         *)
(*   [kind |-> "bytes"]           bytes that are not UTF-8                 *)
(*   [kind |-> "text"]            text that is no JSON document (such as   *)
(*                                the empty output of a failed forge)      *)
(*   [kind |-> "json", doc |-> d] a JSON document d                        *)
(*                                                                         *)
(* A document is a record with a type: an object carries its items in the  *)
(* order of the text (json.loads builds a dict, which keeps it); the k-th  *)
(* item has key k, standing for the k-th function signature, whose text    *)
(* the script never reads.                                                 *)

JString(s) == [type |-> "string", s |-> s]
JNumber    == [type |-> "number"]
JNull      == [type |-> "null"]
JArray(n)  == [type |-> "array", length |-> n]     \* n elements, n > 0
JObject(values) ==
    [type |-> "object",
     items |-> [k \in 1..Len(values) |-> [key |-> k, value |-> values[k]]]]

\* selector strings the tool may report
SelOwner    == <<"8", "d", "a", "5", "c", "b", "5", "b">>
SelTransfer == <<"A", "9", "0", "5", "9", "C", "B", "B">>
SelShort    == <<"a", "5", "c", "b">>
SelOdd      == <<"8", "d", "a", "5", "c">>
SelLong     == <<"8", "d", "a", "5", "c", "b", "5", "b", "0", "1">>

\* well-formed selectors, reported in every order and number up to the bound
SelectorStrings == {SelOwner, SelTransfer}

SeqsUpTo(S, n) == UNION { [1..m -> S] : m \in 0..n }

StringObject(v) == JObject([k \in 1..Len(v) |-> JString(v[k])])

Documents ==
    { StringObject(v) : v \in SeqsUpTo(SelectorStrings, MaxSelectors) }
      \cup { \* a selector of two bytes, alone and beside others
             StringObject(<<SelShort>>),
             StringObject(<<SelOwner, SelShort>>),
             StringObject(<<SelShort, SelTransfer>>),
             \* values that cannot be decoded or encoded
             StringObject(<<SelOdd>>),
             StringObject(<<SelLong>>),
             JObject(<<JNumber>>),
             \* documents that are no mapping
             JArray(1),
             JNull }

ToolOutputs ==
    { [kind |-> "bytes"], [kind |-> "text"] }
      \cup { [kind |-> "json", doc |-> d] : d \in Documents }

----------------------------------------------------------------------------
(* get_selectors, from the captured standard output on (lines 50-65).      *)
(* The result says how the call ends:                                      *)
(*   [outcome |-> "raise", exc |-> e]        an exception leaves the call  *)
(*                                           (SystemExit for sys.exit(1))  *)
(*   [outcome |-> "return", value |-> blob]  line 65                       *)

Raise(e) == [outcome |-> "raise", exc |-> e]

\* lines 59-62: the values the loop reaches, in order
LoopValues(doc) ==
    IF doc.type = "object"
    THEN [k \in 1..Len(doc.items) |-> doc.items[k].value]
    ELSE <<>>

\* lines 59-62 on a parsed document: the list `selectors`, or the exception
\* of the first step that fails
CollectSelectors(doc) ==
    IF doc.type \in {"null", "number"}
    THEN Raise("TypeError")                     \* not iterable
    ELSE IF doc.type = "array" /\ doc.length > 0
    THEN Raise("TypeError")                     \* list indexed by an element
    ELSE
      LET values == LoopValues(doc)
          bad    == { k \in 1..Len(values) :
                        \/ values[k].type # "string"
                        \/ ~fromhex_ok(values[k].s) }
      IN  IF bad # {}
          THEN LET k == CHOOSE j \in bad : \A l \in bad : j <= l
               IN  IF values[k].type # "string" THEN Raise("TypeError")
                                                ELSE Raise("ValueError")
          ELSE [outcome |-> "return",
                value |-> [k \in 1..Len(values) |-> fromhex(values[k].s)]]

get_selectors(stdout) ==
    IF stdout.kind = "bytes" THEN Raise("UnicodeDecodeError")      \* line 50
    ELSE IF stdout.kind = "text" THEN Raise("SystemExit")          \* 53-57
    ELSE
      LET got == CollectSelectors(stdout.doc)
      IN  IF got.outcome = "raise" THEN got
          ELSE IF ~encode_ok(got.value) THEN Raise("ValueOutOfBounds")
          ELSE [outcome |-> "return", value |-> hex(encode(got.value))]

----------------------------------------------------------------------------
(* contract_selectors: a Python dict, kept as the sequence of its items in *)
(* insertion order.                                                        *)

Keys(d) == { d[k].name : k \in 1..Len(d) }

Lookup(d, name) == (CHOOSE k \in 1..Len(d) : d[k].name = name)

\* broken: a new key goes to the front
dict_set_front(d, name, blob) ==
    IF name \in Keys(d)
    THEN [d EXCEPT ![Lookup(d, name)].blob = blob]
    ELSE <<[name |-> name, blob |-> blob]>> \o d

\* d[name] = blob: a key already present keeps its place
dict_set(d, name, blob) ==
    IF name \in Keys(d)
    THEN [d EXCEPT ![Lookup(d, name)].blob = blob]
    ELSE Append(d, [name |-> name, blob |-> blob])

----------------------------------------------------------------------------
(* generate_solidity_function (lines 19-32).                               *)

Header ==
    << "// SPDX-License-Identifier: MIT OR Apache-2.0\npragma solidity ^0.8.19;\n",
       "library SelectorLibrary {\n",
       "    function resolveSelectors(string memory facetName) public pure returns (bytes4[] memory facetSelectors) {\n" >>

IfOpen      == "        if (keccak256(abi.encodePacked(facetName)) == keccak256(abi.encodePacked(\""
IfClose     == "\"))) {\n"
ReturnOpen  == "            return abi.decode(hex\""
ReturnClose == "\", (bytes4[]));\n"
BlockClose  == "        }\n"

Footer ==
    << "        revert(\"Selector not found\");\n",
       "    }\n",
       "}\n" >>

\* lines 25-27
Branch(item) ==
    <<IfOpen>> \o item.name \o <<IfClose, ReturnOpen>>
               \o item.blob \o <<ReturnClose, BlockClose>>

generate_solidity_function(contract_selectors) ==
    Header
      \o Flatten([k \in 1..Len(contract_selectors) |->
                     Branch(contract_selectors[k])])
      \o Footer

----------------------------------------------------------------------------
(* The generated library as Solidity runs it: resolveSelectors(facetName)  *)
(* read off the generated text.                                            *)

FirstIndexOf(s, c) ==
    LET hits == { k \in 1..Len(s) : s[k] = c }
    IN  CHOOSE k \in hits : \A j \in hits : k <= j

\* the if-statements of the function body, in source order
RECURSIVE ParseBranches(_)
ParseBranches(t) ==
    IF t = <<>> \/ Head(t) # IfOpen THEN <<>>
    ELSE LET a == FirstIndexOf(t, IfClose)
             b == FirstIndexOf(t, ReturnClose)
         IN  <<[name |-> SubSeq(t, 2, a - 1), blob |-> SubSeq(t, a + 2, b - 1)]>>
               \o ParseBranches(SubSeq(t, b + 2, Len(t)))

FunctionBody(text) == SubSeq(text, Len(Header) + 1, Len(text))

\* The first branch whose literal equals facetName returns its decoded
\* blob; keccak256 of the packed strings is equal exactly when the strings
\* are.  Past the last branch the call reverts.
resolveSelectors(text, facetName) ==
    LET branches == ParseBranches(FunctionBody(text))
        hits     == { k \in 1..Len(branches) : branches[k].name = facetName }
    IN  IF hits = {} THEN [ok |-> FALSE, reason |-> "Selector not found"]
        ELSE LET k   == CHOOSE j \in hits : \A l \in hits : j <= l
                 got == abi_decode(fromhex(branches[k].blob))
             IN  IF got.ok THEN got ELSE [ok |-> FALSE, reason |-> "abi.decode"]

----------------------------------------------------------------------------
(* main (lines 67-118).                                                    *)

PathOwnershipFacet  == <<"s", "r", "c", "/", "O", "w", "n", "e", "r", "s", "h", "i", "p", "F", "a", "c", "e", "t", ".", "s", "o", "l">>
PathSelectorLibrary == <<"t", "e", "s", "t", "/", "h", "e", "l", "p", "e", "r", "s", "/", "S", "e", "l", "e", "c", "t", "o", "r", "L", "i", "b", "r", "a", "r", "y", ".", "s", "o", "l">>
PathLibGateway      == <<"s", "r", "c", "/", "l", "i", "b", "/", "L", "i", "b", "G", "a", "t", "e", "w", "a", "y", ".", "s", "o", "l">>
PathIGateway        == <<"s", "r", "c", "/", "i", "n", "t", "e", "r", "f", "a", "c", "e", "s", "/", "I", "G", "a", "t", "e", "w", "a", "y", ".", "s", "o", "l">>
PathMerkleHelper    == <<"t", "e", "s", "t", "/", "h", "e", "l", "p", "e", "r", "s", "/", "M", "e", "r", "k", "l", "e", "T", "r", "e", "e", "H", "e", "l", "p", "e", "r", ".", "s", "o", "l">>

\* the files a target list is drawn from
PathUniverse == { PathOwnershipFacet, PathSelectorLibrary, PathLibGateway,
                  PathIGateway, PathMerkleHelper }

Injective(s) == \A j, k \in 1..Len(s) : j # k => s[j] # s[k]

TargetLists ==
    { l \in UNION { [1..n -> PathUniverse] : n \in 1..MaxTargets } : Injective(l) }

\* the content of test/helpers/SelectorLibrary.sol before the run
PreviousContent == <<"// left by an earlier run\n">>

VARIABLES
    filepaths_to_target,  \* line 69: the ordered target list
    i,                    \* line 97: position of the loop in the list
    pc,                   \* "loop", "forge" (inside subprocess.run), "exited"
    contract_selectors,   \* line 68: the registry
    invoked,              \* the calls of subprocess.run so far
    reported,             \* how each finished call ended
    file,                 \* content of test/helpers/SelectorLibrary.sol
    writes,               \* number of times the file was opened for writing
    exit_status           \* <<>> while running, then <<status>>

vars == << filepaths_to_target, i, pc, contract_selectors, invoked,
           reported, file, writes, exit_status >>

Init ==
    /\ filepaths_to_target \in TargetLists
    /\ i = 1
    /\ pc = "loop"
    /\ contract_selectors = <<>>
    /\ invoked = <<>>
    /\ reported = <<>>
    /\ file = PreviousContent
    /\ writes = 0
    /\ exit_status = <<>>

filepath == filepaths_to_target[i]

\* line 97, broken: the loop ends after the first target
LoopDoneAfterFirst(k, targets) == k > 1

\* line 97: the for loop is exhausted
LoopDone(k, targets) == k > Len(targets)

\* broken: the loop stays on the target it just handled
SameTarget(k) == k

\* line 97: the for loop moves to the next target
NextTarget(k) == k + 1

\* broken: a bare `except:`
CaughtBareExcept(exc) == TRUE

\* broken: `except ValueError`
CaughtValueErrorOnly(exc) == exc \in {"ValueError", "UnicodeDecodeError"}

\* line 112: `except Exception` catches everything but SystemExit
CaughtByMain(exc) == exc # "SystemExit"

\* line 110: `if selectors:` is the truth value of the returned string
Truthy(selectors) == selectors # <<>>

\* lines 103-104
SkipFiltered ==
    /\ pc = "loop"
    /\ ~LoopDone(i, filepaths_to_target)
    /\ IsFiltered(ContractName(filepath))
    /\ i' = NextTarget(i)
    /\ UNCHANGED << filepaths_to_target, pc, contract_selectors, invoked,
                    reported, file, writes, exit_status >>

\* lines 109 and 48: subprocess.run is called and blocks
RunForge ==
    /\ pc = "loop"
    /\ ~LoopDone(i, filepaths_to_target)
    /\ ~IsFiltered(ContractName(filepath))
    /\ invoked' = Append(invoked, [target |-> i, contract |-> ContractId(filepath)])
    /\ pc' = "forge"
    /\ UNCHANGED << filepaths_to_target, i, contract_selectors, reported,
                    file, writes, exit_status >>

\* how a finished call ends in main: the exception get_selectors lets out
\* or the blob it returns
Ending(result) ==
    IF result.kind = "oserror" THEN Raise("OSError") ELSE get_selectors(result)

\* lines 108-113, the call raised and line 112 catches it
ExtractionFailure ==
    /\ pc = "forge"
    /\ \E result \in ToolOutputs \cup {[kind |-> "oserror"]} :
         LET ending == Ending(result)
         IN  /\ ending.outcome = "raise"
             /\ CaughtByMain(ending.exc)
             /\ reported' = Append(reported, result)
    /\ i' = NextTarget(i)
    /\ pc' = "loop"
    /\ UNCHANGED << filepaths_to_target, contract_selectors, invoked, file,
                    writes, exit_status >>

\* the call raised and nothing catches it: the interpreter exits with
\* status 1 (SystemExit(1) of line 57, or an uncaught exception)
Abort ==
    /\ pc = "forge"
    /\ \E result \in ToolOutputs \cup {[kind |-> "oserror"]} :
         LET ending == Ending(result)
         IN  /\ ending.outcome = "raise"
             /\ ~CaughtByMain(ending.exc)
             /\ reported' = Append(reported, result)
    /\ pc' = "exited"
    /\ exit_status' = <<1>>
    /\ UNCHANGED << filepaths_to_target, i, contract_selectors, invoked,
                    file, writes >>

\* lines 109-111: the call returned
StoreSelectors ==
    /\ pc = "forge"
    /\ \E result \in ToolOutputs :
         LET selectors == Ending(result)
         IN  /\ selectors.outcome = "return"
             /\ reported' = Append(reported, result)
             /\ contract_selectors' =
                  IF Truthy(selectors.value)
                  THEN dict_set(contract_selectors, ContractName(filepath),
                                selectors.value)
                  ELSE contract_selectors
    /\ i' = NextTarget(i)
    /\ pc' = "loop"
    /\ UNCHANGED << filepaths_to_target, invoked, file, writes, exit_status >>

\* lines 117-118, then the script ends
WriteLibrary ==
    /\ pc = "loop"
    /\ LoopDone(i, filepaths_to_target)
    /\ file' = generate_solidity_function(contract_selectors)
    /\ writes' = writes + 1
    /\ pc' = "exited"
    /\ exit_status' = <<0>>
    /\ UNCHANGED << filepaths_to_target, i, contract_selectors, invoked, reported >>

Next ==
    \/ SkipFiltered
    \/ RunForge
    \/ ExtractionFailure
    \/ Abort
    \/ StoreSelectors
    \/ WriteLibrary

Spec == Init /\ [][Next]_vars

----------------------------------------------------------------------------
(* Vocabulary of the properties.                                           *)

TargetName(k) == ContractName(filepaths_to_target[k])

\* the reserved names, read off the characters of the name
ReservedName(name) ==
    \/ Len(name) >= 3 /\ name[1] = "L" /\ name[2] = "i" /\ name[3] = "b"
    \/ Len(name) >= 1 /\ name[1] = "I"
    \/ /\ Len(name) >= 6
       /\ [k \in 1..6 |-> name[Len(name) - 6 + k]] = <<"H", "e", "l", "p", "e", "r">>

\* the targets that are not reserved, among the first h of the list
Unreserved(h) == { k \in 1..h : ~ReservedName(TargetName(k)) }

\* the members of a set of numbers in increasing order
Ascending(S) ==
    CHOOSE f \in [1..Cardinality(S) -> S] :
        \A a, b \in 1..Cardinality(S) : a < b => f[a] < f[b]

\* the finished calls
Finished == 1..Len(reported)

\* the name the k-th call was made for
CalledName(k) == TargetName(invoked[k].target)

\* a parsed document from which get_selectors returns: every step of the
\* loop and the encoding go through
Returns(result) ==
    /\ result.kind = "json"
    /\ LET got == CollectSelectors(result.doc)
       IN  got.outcome = "return" /\ encode_ok(got.value)

\* the k-th call ended with get_selectors returning
Succeeded(k) == Returns(reported[k])

\* the selector strings the k-th call reported, in the order reported
ReportedHex(k) ==
    LET values == LoopValues(reported[k].doc)
    IN  [j \in 1..Len(values) |-> values[j].s]

\* a call that failed with something other than unparsable output
RecoverableFailure(result) ==
    \/ result.kind \in {"oserror", "bytes"}
    \/ result.kind = "json" /\ ~Returns(result)

BlobOf(name) == contract_selectors[Lookup(contract_selectors, name)].blob

LowerOf(c) ==
    IF c \in Range(UpperHexDigits)
    THEN HexDigits[CHOOSE k \in 1..16 : UpperHexDigits[k] = c]
    ELSE c

Lowered(s) == [k \in 1..Len(s) |-> LowerOf(s[k])]

ZeroChars(n) == [k \in 1..n |-> "0"]

\* the w-th 32-byte word of a blob, as its 64 hex characters
HexWord(blob, w) == SubSeq(blob, 64 * (w - 1) + 1, 64 * w)

\* the 64 hex characters of the word holding the number n < 256
NumberWord(n) ==
    ZeroChars(62) \o <<HexDigits[(n \div 16) + 1], HexDigits[(n % 16) + 1]>>

\* every selector the k-th call reported is four bytes long
FourByteSelectors(k) ==
    /\ Succeeded(k)
    /\ \A j \in 1..Len(ReportedHex(k)) : Len(ReportedHex(k)[j]) = 8

\* the positions of the selectors of fewer than four bytes
ShortSelectors(k) == { j \in 1..Len(ReportedHex(k)) : Len(ReportedHex(k)[j]) < 8 }

\* the output of the k-th call with the string of selector j replaced
WithSelector(k, j, s) ==
    [kind |-> "json",
     doc  |-> JObject([l \in 1..Len(ReportedHex(k)) |->
                          JString(IF l = j THEN s ELSE ReportedHex(k)[l])])]

PadRightHex(s) == s \o ZeroChars(8 - Len(s))
PadLeftHex(s)  == ZeroChars(8 - Len(s)) \o s

\* names a caller may pass to resolveSelectors
FacetNames ==
    { ContractName(p) : p \in PathUniverse } \cup { <<>>, <<"O">> }

----------------------------------------------------------------------------
(* C1 *)

\* C1 (omission law): the registry holds an entry for a name only if the
\* call made for that name raised nothing and reported at least one
\* selector.
C1_OmissionLaw ==
    \A e \in Range(contract_selectors) :
        \E k \in Finished :
            /\ CalledName(k) = e.name
            /\ Succeeded(k)
            /\ Len(ReportedHex(k)) >= 1

----------------------------------------------------------------------------
(* C2 *)

\* C2 as written (encoder layout): n four-byte selectors give n+1 words of
\* lowercase hex, the length first and selector j in word j+1 followed by
\* 28 zero bytes.
C2_LayoutWithoutOffset ==
    \A k \in Finished :
        FourByteSelectors(k) =>
            LET n    == Len(ReportedHex(k))
                blob == BlobOf(CalledName(k))
            IN  (n >= 1 \/ CalledName(k) \in Keys(contract_selectors)) =>
                /\ CalledName(k) \in Keys(contract_selectors)
                /\ Len(blob) = 64 * (n + 1)
                /\ Range(blob) \subseteq Range(HexDigits)
                /\ HexWord(blob, 1) = NumberWord(n)
                /\ \A j \in 1..n :
                      HexWord(blob, j + 1) =
                          Lowered(ReportedHex(k)[j]) \o ZeroChars(56)

\* C2 amended (encoder layout): n four-byte selectors give n+2 words of
\* lowercase hex without prefix: the offset 32 of the array, the length n,
\* and selector j in word j+2 followed by 28 zero bytes.
C2_LayoutWithOffset ==
    \A k \in Finished :
        FourByteSelectors(k) =>
            LET n    == Len(ReportedHex(k))
                blob == BlobOf(CalledName(k))
            IN  (n >= 1 \/ CalledName(k) \in Keys(contract_selectors)) =>
                /\ CalledName(k) \in Keys(contract_selectors)
                /\ Len(blob) = 64 * (n + 2)
                /\ Range(blob) \subseteq Range(HexDigits)
                /\ HexWord(blob, 1) = NumberWord(32)
                /\ HexWord(blob, 2) = NumberWord(n)
                /\ \A j \in 1..n :
                      HexWord(blob, j + 2) =
                          Lowered(ReportedHex(k)[j]) \o ZeroChars(56)

\* a call reported transfer (in capitals) then owner, and its blob is stored
C2_Witness ==
    \E k \in Finished :
        /\ FourByteSelectors(k)
        /\ ReportedHex(k) = <<SelTransfer, SelOwner>>
        /\ CalledName(k) \in Keys(contract_selectors)

----------------------------------------------------------------------------
(* C3 *)

\* C3 as written (padding): the blob of a call that reported a selector of
\* fewer than four bytes is the blob the call would have given with that
\* selector zero-padded on the left to four bytes.
C3_PaddedLeft ==
    \A k \in Finished :
        Succeeded(k) =>
            \A j \in ShortSelectors(k) :
                /\ CalledName(k) \in Keys(contract_selectors)
                /\ BlobOf(CalledName(k)) =
                     get_selectors(
                         WithSelector(k, j, PadLeftHex(ReportedHex(k)[j]))).value

\* C3 amended (padding): the blob of a call that reported a selector of
\* fewer than four bytes is the blob the call would have given with that
\* selector zero-padded on the right to four bytes.
C3_PaddedRight ==
    \A k \in Finished :
        Succeeded(k) =>
            \A j \in ShortSelectors(k) :
                /\ CalledName(k) \in Keys(contract_selectors)
                /\ BlobOf(CalledName(k)) =
                     get_selectors(
                         WithSelector(k, j, PadRightHex(ReportedHex(k)[j]))).value

\* a call reported owner and a two-byte selector, and its blob is stored
C3_Witness ==
    \E k \in Finished :
        /\ Succeeded(k)
        /\ ReportedHex(k) = <<SelOwner, SelShort>>
        /\ CalledName(k) \in Keys(contract_selectors)

----------------------------------------------------------------------------
(* C4 *)

PadRightBytes(bs) == bs \o Zeros(4 - Len(bs))

\* the call whose blob the registry holds under a name
CallFor(name) == CHOOSE k \in Finished : CalledName(k) = name /\ Succeeded(k)

\* resolveSelectors of the written library reverts with "Selector not
\* found" for every name that is no key of the registry
UnknownNamesRevert ==
    \A name \in FacetNames \ Keys(contract_selectors) :
        resolveSelectors(file, name) = [ok |-> FALSE, reason |-> "Selector not found"]

\* C4 as written (generated-function contract): for every entry of the
\* registry handed to the generator, resolveSelectors with that name
\* returns the decoded blob, which is the selector sequence the tool
\* reported, element by element; any other name reaches the final revert.
C4_ReturnsReported ==
    exit_status = <<0>> =>
        /\ \A e \in Range(contract_selectors) :
              LET got == resolveSelectors(file, e.name)
                  k   == CallFor(e.name)
              IN  /\ got.ok
                  /\ got = abi_decode(fromhex(e.blob))
                  /\ got.value = [j \in 1..Len(ReportedHex(k)) |->
                                     fromhex(ReportedHex(k)[j])]
        /\ UnknownNamesRevert

\* C4 amended: the returned array is the reported sequence with every
\* selector of fewer than four bytes zero-padded on the right to four
\* bytes (the reported sequence itself when all its selectors have four).
C4_ReturnsReportedPadded ==
    exit_status = <<0>> =>
        /\ \A e \in Range(contract_selectors) :
              LET got == resolveSelectors(file, e.name)
                  k   == CallFor(e.name)
              IN  /\ got.ok
                  /\ got = abi_decode(fromhex(e.blob))
                  /\ got.value = [j \in 1..Len(ReportedHex(k)) |->
                                     PadRightBytes(fromhex(ReportedHex(k)[j]))]
        /\ UnknownNamesRevert

\* the library was written from two entries, one of two selectors
C4_Witness ==
    /\ exit_status = <<0>>
    /\ Len(contract_selectors) = 2
    /\ \E k \in Finished : Succeeded(k) /\ ReportedHex(k) = <<SelTransfer, SelOwner>>
    /\ \E k \in Finished : Succeeded(k) /\ ReportedHex(k) = <<SelShort>>
    /\ FacetNames \ Keys(contract_selectors) # {}

----------------------------------------------------------------------------
(* C5 *)

\* C5 (fatal abort): output that is no JSON ends the run at once with a
\* non-zero status: the loop has not moved past that target, no call was
\* made or finished after it, and nothing was written.
C5_FatalAbort ==
    \A k \in Finished :
        reported[k].kind = "text" =>
            /\ k = Len(reported)
            /\ Len(invoked) = k
            /\ i = invoked[k].target
            /\ pc = "exited"
            /\ exit_status # <<>>
            /\ exit_status[1] # 0

\* the run ended on unparsable output with a later target, not reserved,
\* still in the list
C5_Witness ==
    /\ reported # <<>>
    /\ reported[Len(reported)].kind = "text"
    /\ \E k \in (i + 1)..Len(filepaths_to_target) : ~ReservedName(TargetName(k))

----------------------------------------------------------------------------
(* C6 *)

\* C6 (recoverable failure): a call that fails with anything but
\* unparsable output leaves the registry as it was and the loop goes on to
\* the next target; only unparsable output ends a run with a non-zero
\* status; while the loop runs it stands on a target of the list or just
\* past the last; and a run over with status zero has handled every
\* target and written the file.
C6_StepContained ==
    (/\ Len(reported') = Len(reported) + 1
     /\ RecoverableFailure(reported'[Len(reported')]))
        => /\ contract_selectors' = contract_selectors
           /\ file' = file
           /\ i' = i + 1
           /\ pc' = "loop"
           /\ exit_status' = <<>>

C6_RunGoesOn ==
    /\ (exit_status # <<>> /\ exit_status # <<0>>)
          => (reported # <<>> /\ reported[Len(reported)].kind = "text")
    /\ pc = "exited" <=> exit_status # <<>>
    /\ pc # "exited" => i \in 1..(Len(filepaths_to_target) + 1)
    /\ pc = "forge" => i \in 1..Len(filepaths_to_target)
    /\ exit_status = <<0>>
          => /\ writes = 1
             /\ i = Len(filepaths_to_target) + 1
             /\ { invoked[k].target : k \in Finished }
                  = Unreserved(Len(filepaths_to_target))

C6_RecoverableFailure == [][C6_StepContained]_vars /\ []C6_RunGoesOn

\* a run ended with status zero and the file written, after a call that
\* failed and a later call that was stored
C6_Witness ==
    /\ exit_status = <<0>>
    /\ writes = 1
    /\ \E j, k \in Finished :
          /\ j < k
          /\ RecoverableFailure(reported[j])
          /\ Succeeded(k)
          /\ CalledName(k) \in Keys(contract_selectors)

----------------------------------------------------------------------------
(* C7 *)

\* C7 (filtering law): for a target whose name starts with Lib or I or
\* ends with Helper, the tool is never called and neither the registry nor
\* the written file has an entry under that name.
C7_FilteringLaw ==
    \A k \in 1..Len(filepaths_to_target) :
        ReservedName(TargetName(k)) =>
            /\ \A j \in 1..Len(invoked) :
                  /\ invoked[j].target # k
                  /\ invoked[j].contract # ContractId(filepaths_to_target[k])
            /\ TargetName(k) \notin Keys(contract_selectors)
            /\ writes > 0 =>
                  TargetName(k) \notin Keys(ParseBranches(FunctionBody(file)))

\* the run went past a reserved target and stored another one
C7_Witness ==
    /\ exit_status = <<0>>
    /\ contract_selectors # <<>>
    /\ \E k \in 1..Len(filepaths_to_target) : ReservedName(TargetName(k))

----------------------------------------------------------------------------
(* C8 *)

\* the targets the loop has reached a call for
Reached == IF pc = "forge" \/ (exit_status # <<>> /\ exit_status # <<0>>)
           THEN i ELSE i - 1

\* C8 (exactly-once sequential invocation): the calls made so far are one
\* call for each target reached that is not reserved, in list order, each
\* under the identifier path:name; at most the last call is unfinished,
\* and only while the run is inside it; a run ending with status zero has
\* reached every target.
C8_ExactlyOnce ==
    /\ [k \in 1..Len(invoked) |-> invoked[k].target] = Ascending(Unreserved(Reached))
    /\ \A k \in 1..Len(invoked) :
          invoked[k].contract =
              filepaths_to_target[invoked[k].target] \o <<":">>
                  \o TargetName(invoked[k].target)
    /\ Len(reported) = IF pc = "forge" THEN Len(invoked) - 1 ELSE Len(invoked)
    /\ exit_status = <<0>> => Reached = Len(filepaths_to_target)

\* a run ended with status zero after two calls, the first of which failed
C8_Witness ==
    /\ exit_status = <<0>>
    /\ Len(invoked) = 2
    /\ RecoverableFailure(reported[1])

----------------------------------------------------------------------------
(* C9 *)

\* the blob of a reported selector sequence, written out character by
\* character
LayoutOf(hexes) ==
    NumberWord(32) \o NumberWord(Len(hexes))
      \o Flatten([j \in 1..Len(hexes) |->
                     Lowered(hexes[j]) \o ZeroChars(64 - Len(hexes[j]))])

\* the text fixed by the target list and the tool's outputs: one branch
\* for each call that succeeded (one that reported no selector included),
\* in the order of the calls, under the name of the target the call was
\* made for, with the selectors in the order reported
TextOfInputs ==
    LET targets == Ascending(Unreserved(Len(filepaths_to_target)))
    IN  Header
          \o Flatten([k \in 1..Len(reported) |->
                 IF Succeeded(k)
                 THEN <<IfOpen>> \o TargetName(targets[k])
                        \o <<IfClose, ReturnOpen>>
                        \o LayoutOf(ReportedHex(k))
                        \o <<ReturnClose, BlockClose>>
                 ELSE <<>>])
          \o Footer

\* C9 (determinism): the text written is fixed by the ordered target list
\* and the tool's outputs alone; its branches are in the order the targets
\* entered the registry and every blob lists the selectors in the order
\* reported.
C9_Determinism == exit_status = <<0>> => file = TextOfInputs

\* the library was written from two entries, one listing its selectors in
\* descending order
C9_Witness ==
    /\ exit_status = <<0>>
    /\ Len(contract_selectors) = 2
    /\ \E k \in Finished : Succeeded(k) /\ ReportedHex(k) = <<SelTransfer, SelOwner>>
    /\ file # PreviousContent

----------------------------------------------------------------------------
(* C10 *)

\* C10 (output write discipline): the file is written at most once, only
\* when the loop is through the whole list and no call is open, with the
\* rendering of the registry as it then is; until then, and in a run that
\* ends with a non-zero status, it keeps its previous content.
C10_WriteDiscipline ==
    /\ writes <= 1
    /\ writes = 1 =>
          /\ exit_status = <<0>>
          /\ i = Len(filepaths_to_target) + 1
          /\ Len(reported) = Len(invoked)
          /\ file = generate_solidity_function(contract_selectors)
    /\ writes = 0 => file = PreviousContent
    /\ (exit_status # <<>> /\ exit_status # <<0>>) => writes = 0

\* the file was written after a list of two targets, with an entry in it
C10_Witness ==
    /\ writes = 1
    /\ Len(filepaths_to_target) = 2
    /\ contract_selectors # <<>>
    /\ file # PreviousContent

====
